---- MODULE Spec2Model ----
(***************************************************************************)
(* Document-to-mind-map pipeline of the frontend:                          *)
(*   lib/mindmapUtils.ts   extractContentFromFiles, generateMindMapWith-   *)
(*                         Gemini, applyDagreLayout                        *)
(*   components/InputForm.tsx   handleGenerateMindMap (the orchestrator)   *)
(*   App.tsx, components/MindMapDisplay.tsx   the display and its close    *)
(*   unnamed/part_000      useTypewriter                                   *)
(*   components/InputForm.tsx   AiMessageBubble's citation numbering       *)
(* Strings of the program are sequences of one-character strings, so that  *)
(* substring, join and concatenation are computed, not assumed.            *)
(***************************************************************************)
EXTENDS Integers, Sequences, FiniteSets, TLC

\* ------------------------------------------------------------------ bounds
MaxFiles == 3      \* files in one extraction batch
MaxLen == 2        \* characters of a text file, pages of a PDF
MaxBudget == 3     \* largest charLimitPerFile tried
MaxNodes == 3      \* nodes handed to one layout call
MaxEdges == 2      \* edges handed to one layout call
MaxTurns == 2      \* messages of the thread
MaxText == 3       \* characters of a text given to useTypewriter
MaxRequests == 4   \* links of one AI message

\* ------------------------------------------------------------------- state
VARIABLES
  \* extractContentFromFiles: its arguments, the loop index, its local list
  exFiles, exLimit, exIdx, extractedContents, exReturned,
  \* generateMindMapWithGemini: how the model call settles, where the call
  \* stands, what it handed back
  synOutcome, synPc, synResult,
  \* applyDagreLayout: its arguments, the calls made so far, the result of the
  \* latest and of the first call, and the graph object of the latest call
  layNodes, layEdges, layDirection, layPhase, layResult, layFirst, dagreGraph,
  \* App and InputForm: the build's credential, the React state, where
  \* handleGenerateMindMap stands (with the files and contents it holds), and
  \* the calls the current run of the handler has made
  apiKey, uploadedFiles, mindMapError, isGeneratingMap, isMindMapOpen,
  mindMapNodes, mindMapEdges, genPc, genFiles, fileContents, callLog,
  \* how the model call of the latest run settled
  genOutcome,
  \* the props App derives from the thread for InputForm, and the prompt the
  \* handler built from them
  currentUserQuestion, chatHistory, currentAiResponse, geminiPrompt,
  \* useTypewriter: the text prop, the text and index the running interval's
  \* closure holds, the state, whether an interval runs, the state updates
  \* React has queued, and whether the effect of a text change is yet to run
  twText, twClosureText, twDisplayed, twIndex, twInterval, twQueue, twEffectPending,
  \* AiMessageBubble: the citation map and list of one rendering, the urls
  \* requested in it and the numbers handed out
  messageCitationMap, messageCitationLinks, citeRequests, citeNumbers

\* ----------------------------------------------------------------- helpers
Min(a, b) == IF a < b THEN a ELSE b
Max(a, b) == IF a > b THEN a ELSE b

SeqsUpTo(S, n) == UNION {[1..k -> S] : k \in 0..n}

RECURSIVE Concat(_)
\* the concatenation of a sequence of sequences
Concat(ss) == IF ss = <<>> THEN <<>> ELSE Head(ss) \o Concat(Tail(ss))

\* ------------------------------------------------------- Content Extractor
PdfType == "application/pdf"
DocxType == "application/vnd.openxmlformats-officedocument.wordprocessingml.document"
TxtType == "text/plain"
OtherType == "image/png"

Alphabet == <<"a", "b", "c", "d", "e", "f">>

\* String.prototype.substring(start, end): both indexes clamped to
\* [0, length], swapped when start > end.
Substring(s, start, end) ==
  LET a == Max(0, Min(start, Len(s)))
      b == Max(0, Min(end, Len(s)))
  IN SubSeq(s, Min(a, b) + 1, Max(a, b))

RECURSIVE Join(_, _)
\* Array.prototype.join: the items separated by sep
Join(items, sep) ==
  IF items = <<>> THEN <<>>
  ELSE IF Len(items) = 1 THEN Head(items)
  ELSE Head(items) \o sep \o Join(Tail(items), sep)

\* A File: its name, its declared type, whether reading and parsing it
\* succeeds (arrayBuffer(), getDocument, extractRawText, text() do not
\* throw), and what the reader yields: `pages` for a PDF, each page the
\* sequence of its text items, `text` for a DOCX or TXT file.
RECURSIVE PdfPagesText(_)
PdfPagesText(pages) ==
  IF pages = <<>> THEN <<>>
  ELSE Join(Head(pages), <<" ">>) \o <<"\n">> \o PdfPagesText(Tail(pages))

extractTextFromPdf(file) ==
  IF file.readable THEN PdfPagesText(file.pages) ELSE <<>>

extractTextFromDocx(file) ==
  IF file.readable THEN file.text ELSE <<>>

extractTextFromTxt(file) ==
  IF file.readable THEN file.text ELSE <<>>

IsSupported(file) == file.type \in {PdfType, DocxType, TxtType}

\* the text the dispatch on file.type assigns
ExtractedText(file) ==
  IF file.type = PdfType THEN extractTextFromPdf(file)
  ELSE IF file.type = DocxType THEN extractTextFromDocx(file)
  ELSE extractTextFromTxt(file)

\* What one supported file appends to extractedContents.
PushEntryMutDropLimit(file, charLimitPerFile) ==
  [name |-> file.name, text |-> ExtractedText(file)]
PushEntry(file, charLimitPerFile) ==
  [name |-> file.name, text |-> Substring(ExtractedText(file), 0, charLimitPerFile)]

\* One iteration of the for loop: extractedContents after `file`. The three
\* extractTextFrom* functions catch every failure themselves and return "",
\* so the loop's own catch (which pushes the same empty entry) is not entered.
ExtractStepMutPlaceholder(contents, file, charLimitPerFile) ==
  IF ~IsSupported(file) THEN Append(contents, [name |-> file.name, text |-> <<>>])
  ELSE Append(contents, PushEntry(file, charLimitPerFile))
ExtractStepMutAbort(contents, file, charLimitPerFile) ==
  IF ~IsSupported(file) THEN contents
  ELSE IF ~file.readable THEN contents
  ELSE Append(contents, PushEntry(file, charLimitPerFile))
ExtractStep(contents, file, charLimitPerFile) ==
  IF ~IsSupported(file) THEN contents
  ELSE Append(contents, PushEntry(file, charLimitPerFile))

RECURSIVE ExtractLoop(_, _, _)
ExtractLoop(contents, files, charLimitPerFile) ==
  IF files = <<>> THEN contents
  ELSE ExtractLoop(ExtractStep(contents, Head(files), charLimitPerFile),
                   Tail(files), charLimitPerFile)

extractContentFromFiles(files, charLimitPerFile) ==
  ExtractLoop(<<>>, files, charLimitPerFile)

\* ---- the files tried
TextOfLen(k) == SubSeq(Alphabet, 1, k)
PdfOfPages(k) == [i \in 1..k |-> << <<Alphabet[i]>>, <<Alphabet[i]>> >>]
FileNames == {"f1", "f2"}
ExFiles ==
  {[name |-> n, type |-> PdfType, readable |-> r, pages |-> PdfOfPages(1), text |-> <<>>] :
      n \in FileNames, r \in BOOLEAN}
  \cup {[name |-> n, type |-> DocxType, readable |-> r, pages |-> <<>>, text |-> TextOfLen(MaxLen)] :
      n \in FileNames, r \in BOOLEAN}
  \cup {[name |-> n, type |-> TxtType, readable |-> TRUE, pages |-> <<>>, text |-> TextOfLen(k)] :
      n \in FileNames, k \in 0..MaxLen}
  \cup {[name |-> n, type |-> TxtType, readable |-> FALSE, pages |-> <<>>, text |-> TextOfLen(MaxLen)] :
      n \in FileNames}
  \cup {[name |-> n, type |-> OtherType, readable |-> TRUE, pages |-> <<>>, text |-> TextOfLen(1)] :
      n \in FileNames}

\* -------------------------------------------------------- Graph Synthesizer
\* A JSON value as JSON.parse returns it: its kind and, for an object, its
\* `nodes` and `edges` properties. A property is absent or holds a value of
\* some kind; `items` are the members of an array value.
Prop(tag, items) == [tag |-> tag, items |-> items]
Absent == Prop("absent", <<>>)

\* ToBoolean of a property read: undefined (absent), null, false, 0 and ""
\* are falsy; every array (also the empty one), object, non-empty string and
\* non-zero number is truthy.
Truthy(prop) == prop.tag \in {"array", "object", "string", "number"}

GeminiNode(id, label, parent) == [id |-> id, label |-> label, parent |-> parent]
GeminiEdge(source, target) == [source |-> source, target |-> target]

JsonObject(nodes, edges) == [kind |-> "object", nodes |-> nodes, edges |-> edges]
JsonOther(kind) == [kind |-> kind, nodes |-> Absent, edges |-> Absent]

\* An Error as the SDK, JSON.parse or a property read of null throws it: its
\* name and its message, a sequence of phrases ("" is the empty sequence).
ErrorOf(name, message) == [name |-> name, message |-> message]
Includes(message, phrase) == \E i \in 1..Len(message) : message[i] = phrase

\* JSON.parse(responseText): the value the text denotes, or a SyntaxError.
JsonParse(responseText) ==
  IF responseText.wellFormed
    THEN [threw |-> FALSE, value |-> responseText.denotes,
          error |-> ErrorOf("none", <<>>)]
    ELSE [threw |-> TRUE, value |-> JsonOther("null"),
          error |-> ErrorOf("SyntaxError", <<"Unexpected token">>)]

\* parsed.nodes / parsed.edges: a TypeError on null, undefined on a
\* primitive or an array, the property of an object.
ReadProp(parsed, name) ==
  IF parsed.kind = "null"
    THEN [threw |-> TRUE, prop |-> Absent,
          error |-> ErrorOf("TypeError", <<"Cannot read properties of null">>)]
    ELSE [threw |-> FALSE,
          prop |-> IF parsed.kind = "object"
                     THEN (IF name = "nodes" THEN parsed.nodes ELSE parsed.edges)
                     ELSE Absent,
          error |-> ErrorOf("none", <<>>)]

\* What generateMindMapWithGemini hands its caller: a value (null or the
\* parsed graph) or an exception, and whether it raised the alert.
Returned(isNull, value, alerted) ==
  [raised |-> FALSE, isNull |-> isNull, value |-> value, alerted |-> alerted]
Raised(error) ==
  [raised |-> TRUE, isNull |-> FALSE, value |-> JsonOther("null"), alerted |-> FALSE]

\* `if (!parsed.nodes || !parsed.edges) return null; return parsed;`
AcceptParsedMutChecksEndpoints(parsed) ==
  LET n == ReadProp(parsed, "nodes")
      e == ReadProp(parsed, "edges")
      known == IF n.prop.tag = "array"
                 THEN {n.prop.items[i].id : i \in DOMAIN n.prop.items} ELSE {}
      dangling == /\ n.prop.tag = "array" /\ e.prop.tag = "array"
                  /\ \E i \in DOMAIN e.prop.items :
                       \/ e.prop.items[i].source \notin known
                       \/ e.prop.items[i].target \notin known
  IN IF n.threw THEN [threw |-> TRUE, error |-> n.error, result |-> Returned(TRUE, JsonOther("null"), FALSE)]
     ELSE IF ~Truthy(n.prop) \/ ~Truthy(e.prop) \/ dangling
       THEN [threw |-> FALSE, error |-> n.error, result |-> Returned(TRUE, JsonOther("null"), FALSE)]
       ELSE [threw |-> FALSE, error |-> n.error, result |-> Returned(FALSE, parsed, FALSE)]
AcceptParsedMutNodesOnly(parsed) ==
  LET n == ReadProp(parsed, "nodes")
  IN IF n.threw THEN [threw |-> TRUE, error |-> n.error, result |-> Returned(TRUE, JsonOther("null"), FALSE)]
     ELSE IF ~Truthy(n.prop)
       THEN [threw |-> FALSE, error |-> n.error, result |-> Returned(TRUE, JsonOther("null"), FALSE)]
       ELSE [threw |-> FALSE, error |-> n.error,
             result |-> Returned(FALSE,
                          IF Truthy(parsed.edges) THEN parsed
                          ELSE [parsed EXCEPT !.edges = Prop("array", <<>>)], FALSE)]
AcceptParsed(parsed) ==
  LET n == ReadProp(parsed, "nodes")
      e == ReadProp(parsed, "edges")
  IN IF n.threw THEN [threw |-> TRUE, error |-> n.error, result |-> Returned(TRUE, JsonOther("null"), FALSE)]
     ELSE IF ~Truthy(n.prop) \/ ~Truthy(e.prop)
       THEN [threw |-> FALSE, error |-> n.error, result |-> Returned(TRUE, JsonOther("null"), FALSE)]
       ELSE [threw |-> FALSE, error |-> n.error, result |-> Returned(FALSE, parsed, FALSE)]

\* The try block: the model call, response.text(), JSON.parse, the check.
TryBlock(outcome) ==
  IF outcome.threw
    THEN [threw |-> TRUE, error |-> outcome.error, result |-> Returned(TRUE, JsonOther("null"), FALSE)]
    ELSE LET p == JsonParse(outcome.responseText)
         IN IF p.threw
              THEN [threw |-> TRUE, error |-> p.error, result |-> Returned(TRUE, JsonOther("null"), FALSE)]
              ELSE AcceptParsed(p.value)

\* The catch block: log, classify the message, return null.
CatchBlockMutRethrow(error) == Raised(error)
CatchBlock(error) ==
  Returned(TRUE, JsonOther("null"),
           error.message # <<>> /\ Includes(error.message, "API key not valid"))

generateMindMapWithGemini(outcome) ==
  LET t == TryBlock(outcome)
  IN IF t.threw THEN CatchBlock(t.error) ELSE t.result

\* ---- the model outcomes tried: generateContent or response.text() throws,
\* or the response text is malformed, or denotes some JSON value.
NodeA == GeminiNode("a", "Root", "null")
NodeB == GeminiNode("b", "Child", "a")
NodeProps ==
  {Absent, Prop("null", <<>>), Prop("false", <<>>), Prop("zero", <<>>),
   Prop("emptystring", <<>>), Prop("string", <<>>), Prop("number", <<>>),
   Prop("object", <<>>),
   Prop("array", <<>>), Prop("array", <<NodeA>>), Prop("array", <<NodeA, NodeB>>)}
EdgeProps ==
  {Absent, Prop("null", <<>>), Prop("false", <<>>), Prop("zero", <<>>),
   Prop("emptystring", <<>>), Prop("string", <<>>), Prop("number", <<>>),
   Prop("object", <<>>),
   Prop("array", <<>>), Prop("array", <<GeminiEdge("a", "b")>>),
   Prop("array", <<GeminiEdge("a", "b"), GeminiEdge("b", "a")>>)}
JsonValues ==
  {JsonOther(k) : k \in {"null", "number", "string", "boolean", "array"}}
  \cup {JsonObject(n, e) : n \in NodeProps, e \in EdgeProps}
ErrorMessages ==
  {<<>>, <<"fetch failed">>, <<"API key not valid">>,
   <<"400 Bad Request", "API key not valid">>, <<"response_mime_type">>}
Threw(error) ==
  [threw |-> TRUE, error |-> error,
   responseText |-> [wellFormed |-> FALSE, denotes |-> JsonOther("null")]]
Responded(wellFormed, denotes) ==
  [threw |-> FALSE, error |-> ErrorOf("none", <<>>),
   responseText |-> [wellFormed |-> wellFormed, denotes |-> denotes]]
GeminiOutcomes ==
  {Threw(ErrorOf("Error", m)) : m \in ErrorMessages}
  \cup {Responded(FALSE, JsonOther("null"))}
  \cup {Responded(TRUE, v) : v \in JsonValues}


\* ------------------------------------------------------------ Layout Engine
nodeWidth == 172
nodeHeight == 50
nodesep == 50
ranksep == 70

PositionTop == "top"
PositionBottom == "bottom"
PositionLeft == "left"
PositionRight == "right"

Range(seq) == {seq[i] : i \in DOMAIN seq}
SetMax(S) == CHOOSE m \in S : \A x \in S : x <= m
IndexOf(seq, v) == CHOOSE i \in DOMAIN seq : seq[i] = v

\* A graphlib Graph (directed, not a multigraph): the node ids in insertion
\* order, the label of each, the edges <<v, w>> in insertion order. A label
\* is the object given to setNode, which dagre.layout completes with x, y
\* (the centre of the box); a node that only setEdge created has none.
NodeLabel(width, height) ==
  [defined |-> TRUE, width |-> width, height |-> height, placed |-> FALSE, x |-> 0, y |-> 0]
UndefinedLabel ==
  [defined |-> FALSE, width |-> 0, height |-> 0, placed |-> FALSE, x |-> 0, y |-> 0]

\* `new dagre.graphlib.Graph()`, made by each call for itself
EmptyGraph == [nodes |-> <<>>, label |-> <<>>, edges |-> <<>>]
NewGraphMutShared == dagreGraph
NewGraph == EmptyGraph

hasNode(g, v) == v \in Range(g.nodes)

\* Graph.setNode(v, label)
setNode(g, v, label) ==
  IF hasNode(g, v) THEN [g EXCEPT !.label[v] = label]
  ELSE [g EXCEPT !.nodes = Append(@, v), !.label = @ @@ (v :> label)]

\* Graph.setNode(v): creates the node, with no label, when it is new
ensureNode(g, v) == IF hasNode(g, v) THEN g ELSE setNode(g, v, UndefinedLabel)

\* Graph.setEdge(v, w): creates both end nodes when they are new
setEdge(g, v, w) ==
  LET g2 == ensureNode(ensureNode(g, v), w)
  IN IF <<v, w>> \in Range(g2.edges) THEN g2
     ELSE [g2 EXCEPT !.edges = Append(@, <<v, w>>)]

\* ---- dagre.layout(dagreGraph). The library is not part of the sources: it
\* is modelled by the phases the design document lists for the Layout Engine
\* (registration, ranking, ordering, coordinate assignment) and by the two
\* steps dagre takes before ranking, which decide what happens to a graph
\* that has no ranking: self-loops are set aside and a depth-first search
\* reverses every edge that closes a cycle.
OutEdgesOf(E, v) == SelectSeq(E, LAMBDA e : e[1] = v)

RECURSIVE DfsVisit(_, _, _), DfsEdges(_, _, _), DfsAll(_, _, _)
DfsVisit(E, v, st) ==
  IF v \in st.visited THEN st
  ELSE LET st1 == [visited |-> st.visited \cup {v}, stack |-> st.stack \cup {v},
                   fas |-> st.fas]
           st2 == DfsEdges(E, OutEdgesOf(E, v), st1)
       IN [st2 EXCEPT !.stack = @ \ {v}]
DfsEdges(E, es, st) ==
  IF es = <<>> THEN st
  ELSE LET e == Head(es)
           st1 == IF e[2] \in st.stack THEN [st EXCEPT !.fas = @ \cup {e}]
                  ELSE DfsVisit(E, e[2], st)
       IN DfsEdges(E, Tail(es), st1)
DfsAll(E, vs, st) ==
  IF vs = <<>> THEN st ELSE DfsAll(E, Tail(vs), DfsVisit(E, Head(vs), st))

\* the feedback arc set: the edges the search finds pointing back into its stack
DfsFAS(nodes, E) ==
  DfsAll(E, nodes, [visited |-> {}, stack |-> {}, fas |-> {}]).fas

\* the edges ranking sees: no self-loop, the feedback arcs reversed
AcyclicEdges(g) ==
  LET E0 == SelectSeq(g.edges, LAMBDA e : e[1] # e[2])
      fas == DfsFAS(g.nodes, E0)
  IN {IF e \in fas THEN <<e[2], e[1]>> ELSE e : e \in Range(E0)}

RECURSIVE RankOf(_, _)
\* Ranking: longest-path layering from the sources, so that every edge of A
\* goes to a strictly greater rank.
RankOf(v, A) ==
  LET preds == {e[1] : e \in {x \in A : x[2] = v}}
  IN IF preds = {} THEN 0 ELSE 1 + SetMax({RankOf(u, A) : u \in preds})

RECURSIVE RankAll(_, _)
\* the rank of every node of the sequence vs
RankAll(vs, A) ==
  IF vs = <<>> THEN <<>>
  ELSE (Head(vs) :> RankOf(Head(vs), A)) @@ RankAll(Tail(vs), A)

FlowExtent(label, rankdir) == IF rankdir = "TB" THEN label.height ELSE label.width
CrossExtent(label, rankdir) == IF rankdir = "TB" THEN label.width ELSE label.height

\* Ordering: the nodes of rank r, in insertion order.
LayerOf(g, rank, r) == SelectSeq(g.nodes, LAMBDA v : rank[v] = r)

\* a rank is as deep as its deepest box
LayerExtent(g, rank, r, rankdir) ==
  SetMax({FlowExtent(g.label[v], rankdir) : v \in {x \in Range(g.nodes) : rank[x] = r}})

RECURSIVE FlowStart(_, _, _, _, _)
\* Flow-axis assignment: rank r starts where rank r-1 ends plus rsep.
FlowStart(g, rank, r, rankdir, rsep) ==
  IF r = 0 THEN 0
  ELSE FlowStart(g, rank, r - 1, rankdir, rsep) + LayerExtent(g, rank, r - 1, rankdir) + rsep

\* boxes are centred in their rank
FlowCentre(g, rank, v, rankdir, rsep) ==
  FlowStart(g, rank, rank[v], rankdir, rsep) + LayerExtent(g, rank, rank[v], rankdir) \div 2

RECURSIVE CrossCentre(_, _, _, _, _)
\* Cross-axis assignment: neighbouring boxes of a rank nsep apart, the first
\* box starting at 0.
CrossCentre(g, layer, i, rankdir, nsep) ==
  LET half == CrossExtent(g.label[layer[i]], rankdir) \div 2
  IN IF i = 1 THEN half
     ELSE CrossCentre(g, layer, i - 1, rankdir, nsep)
          + CrossExtent(g.label[layer[i - 1]], rankdir)
          - CrossExtent(g.label[layer[i - 1]], rankdir) \div 2
          + nsep + half

\* the label of v after layout: x, y written into the object given to
\* setNode; a node without a label object gets nothing written
PlaceLabel(g, rank, v, rankdir, nsep, rsep) ==
  LET layer == LayerOf(g, rank, rank[v])
      cross == CrossCentre(g, layer, IndexOf(layer, v), rankdir, nsep)
      flow == FlowCentre(g, rank, v, rankdir, rsep)
  IN IF ~g.label[v].defined THEN g.label[v]
     ELSE [g.label[v] EXCEPT !.placed = TRUE,
                             !.x = IF rankdir = "TB" THEN cross ELSE flow,
                             !.y = IF rankdir = "TB" THEN flow ELSE cross]

RECURSIVE PlaceAll(_, _, _, _, _, _)
PlaceAll(g, rank, vs, rankdir, nsep, rsep) ==
  IF vs = <<>> THEN g.label
  ELSE [PlaceAll(g, rank, Tail(vs), rankdir, nsep, rsep)
          EXCEPT ![Head(vs)] = PlaceLabel(g, rank, Head(vs), rankdir, nsep, rsep)]

DagreLayout(g, rankdir, nsep, rsep) ==
  LET rank == RankAll(g.nodes, AcyclicEdges(g))
  IN [g EXCEPT !.label = PlaceAll(g, rank, g.nodes, rankdir, nsep, rsep)]

\* ---- applyDagreLayout
ReactFlowNode(id, label) ==
  [id |-> id, data |-> [label |-> label], position |-> [x |-> 0, y |-> 0]]
ReactFlowEdge(index, source, target) ==
  [id |-> <<"e", index, "-", source, "-", target>>, source |-> source, target |-> target,
   animated |-> TRUE, type |-> "smoothstep"]

\* `dagreGraph.setNode(node.id, { width: nodeWidth, height: nodeHeight })`
RegisterNodeMutKeepsDuplicates(g, node) ==
  IF hasNode(g, node.id) THEN [g EXCEPT !.nodes = Append(@, node.id)]
  ELSE setNode(g, node.id, NodeLabel(nodeWidth, nodeHeight))
RegisterNodeMutSwapped(g, node) == setNode(g, node.id, NodeLabel(nodeHeight, nodeWidth))
RegisterNode(g, node) == setNode(g, node.id, NodeLabel(nodeWidth, nodeHeight))

\* `dagreGraph.setEdge(edge.source, edge.target)`
RegisterEdgeMutReversed(g, edge) == setEdge(g, edge.target, edge.source)
RegisterEdge(g, edge) == setEdge(g, edge.source, edge.target)

RECURSIVE RegisterNodes(_, _), RegisterEdges(_, _)
RegisterNodes(g, nodes) ==
  IF nodes = <<>> THEN g ELSE RegisterNodes(RegisterNode(g, Head(nodes)), Tail(nodes))
RegisterEdges(g, edges) ==
  IF edges = <<>> THEN g ELSE RegisterEdges(RegisterEdge(g, Head(edges)), Tail(edges))

\* one element of `nodes.map(...)`
LayoutedNodeMutNotCentred(node, nodeWithPosition, direction) ==
  [id |-> node.id, data |-> node.data,
   targetPosition |-> IF direction = "TB" THEN PositionTop ELSE PositionLeft,
   sourcePosition |-> IF direction = "TB" THEN PositionBottom ELSE PositionRight,
   position |-> [x |-> nodeWithPosition.x, y |-> nodeWithPosition.y]]
LayoutedNodeMutAnchorsVertical(node, nodeWithPosition, direction) ==
  [id |-> node.id, data |-> node.data,
   targetPosition |-> PositionTop, sourcePosition |-> PositionBottom,
   position |-> [x |-> nodeWithPosition.x - nodeWidth \div 2,
                 y |-> nodeWithPosition.y - nodeHeight \div 2]]
LayoutedNode(node, nodeWithPosition, direction) ==
  [id |-> node.id, data |-> node.data,
   targetPosition |-> IF direction = "TB" THEN PositionTop ELSE PositionLeft,
   sourcePosition |-> IF direction = "TB" THEN PositionBottom ELSE PositionRight,
   position |-> [x |-> nodeWithPosition.x - nodeWidth \div 2,
                 y |-> nodeWithPosition.y - nodeHeight \div 2]]

\* The body of applyDagreLayout: what it returns, whether it raises (reading
\* .x of a node dagreGraph.node() does not know), and the graph it built.
LayoutBody(nodes, edges, direction) ==
  LET g == DagreLayout(RegisterEdges(RegisterNodes(NewGraph, nodes), edges),
                       direction, nodesep, ranksep)
      raised == \E i \in 1..Len(nodes) : ~g.label[nodes[i].id].defined
  IN [raised |-> raised,
      layoutedNodes |-> IF raised THEN <<>>
                        ELSE [i \in 1..Len(nodes) |->
                                LayoutedNode(nodes[i], g.label[nodes[i].id], direction)],
      layoutedEdges |-> IF raised THEN <<>> ELSE edges,
      graph |-> g]

applyDagreLayoutMutOutputsGraphNodes(nodes, edges, direction) ==
  LET r == LayoutBody(nodes, edges, direction)
  IN [r EXCEPT !.layoutedNodes =
        [i \in 1..Len(r.graph.nodes) |->
           LayoutedNode(ReactFlowNode(r.graph.nodes[i], r.graph.nodes[i]),
                        r.graph.label[r.graph.nodes[i]], direction)]]
applyDagreLayoutMutDropsDangling(nodes, edges, direction) ==
  LET r == LayoutBody(nodes, edges, direction)
      ids == {nodes[i].id : i \in DOMAIN nodes}
  IN [r EXCEPT !.layoutedEdges =
        SelectSeq(edges, LAMBDA e : e.source \in ids /\ e.target \in ids)]
applyDagreLayoutMutNeedsRoot(nodes, edges, direction) ==
  IF nodes = <<>>
    THEN [raised |-> TRUE, layoutedNodes |-> <<>>, layoutedEdges |-> <<>>,
          graph |-> NewGraph]
    ELSE LayoutBody(nodes, edges, direction)
applyDagreLayout(nodes, edges, direction) == LayoutBody(nodes, edges, direction)

exVars == <<exFiles, exLimit, exIdx, extractedContents, exReturned>>
synVars == <<synOutcome, synPc, synResult>>
layVars == <<layNodes, layEdges, layDirection, layPhase, layResult, layFirst, dagreGraph>>
orchVars == <<apiKey, uploadedFiles, mindMapError, isGeneratingMap, isMindMapOpen,
              mindMapNodes, mindMapEdges, genPc, genFiles, fileContents, callLog, genOutcome>>
vars == <<exFiles, exLimit, exIdx, extractedContents, exReturned,
          synOutcome, synPc, synResult,
          layNodes, layEdges, layDirection, layPhase, layResult, layFirst, dagreGraph,
          apiKey, uploadedFiles, mindMapError, isGeneratingMap, isMindMapOpen,
          mindMapNodes, mindMapEdges, genPc, genFiles, fileContents, callLog, genOutcome,
          currentUserQuestion, chatHistory, currentAiResponse, geminiPrompt,
          twText, twClosureText, twDisplayed, twIndex, twInterval, twQueue, twEffectPending,
          messageCitationMap, messageCitationLinks, citeRequests, citeNumbers>>
ctxVars == <<currentUserQuestion, chatHistory, currentAiResponse>>
promptVars == <<currentUserQuestion, chatHistory, currentAiResponse, geminiPrompt>>
twVars == <<twText, twClosureText, twDisplayed, twIndex, twInterval, twQueue, twEffectPending>>
citeVars == <<messageCitationMap, messageCitationLinks, citeRequests, citeNumbers>>

\* the parts of the state a specification does not exercise
ExtractIdle ==
  /\ exFiles = <<>> /\ exLimit = 0 /\ exIdx = 1
  /\ extractedContents = <<>> /\ exReturned = FALSE
SynthIdle ==
  /\ synOutcome = Responded(FALSE, JsonOther("null"))
  /\ synPc = "idle"
  /\ synResult = Returned(TRUE, JsonOther("null"), FALSE)
NoLayout == [raised |-> FALSE, layoutedNodes |-> <<>>, layoutedEdges |-> <<>>]
LayoutIdle ==
  /\ layNodes = <<>> /\ layEdges = <<>> /\ layDirection = "TB"
  /\ layPhase = "start" /\ layResult = NoLayout /\ layFirst = NoLayout
  /\ dagreGraph = EmptyGraph
OrchIdle ==
  /\ apiKey = "AIza" /\ uploadedFiles = <<>> /\ mindMapError = "null"
  /\ isGeneratingMap = FALSE /\ isMindMapOpen = FALSE
  /\ mindMapNodes = <<>> /\ mindMapEdges = <<>>
  /\ genPc = "idle" /\ genFiles = <<>> /\ fileContents = <<>> /\ callLog = <<>>
  /\ genOutcome = Responded(FALSE, JsonOther("null"))
PromptIdle ==
  /\ currentUserQuestion = <<>> /\ chatHistory = <<>> /\ currentAiResponse = <<>>
  /\ geminiPrompt = <<>>
TypewriterIdle ==
  /\ twText = <<>> /\ twClosureText = <<>> /\ twDisplayed = <<>> /\ twIndex = 0
  /\ twInterval = FALSE /\ twQueue = <<>> /\ twEffectPending = FALSE
CitationsIdle ==
  /\ messageCitationMap = <<>> /\ messageCitationLinks = <<>>
  /\ citeRequests = <<>> /\ citeNumbers = <<>>

InitExtract ==
  /\ exFiles \in SeqsUpTo(ExFiles, MaxFiles)
  /\ exLimit \in 0..MaxBudget
  /\ exIdx = 1
  /\ extractedContents = <<>>
  /\ exReturned = FALSE
  /\ SynthIdle
  /\ LayoutIdle
  /\ OrchIdle
  /\ PromptIdle
  /\ TypewriterIdle
  /\ CitationsIdle

\* one iteration of `for (const file of files)`
ExtractFile ==
  /\ ~exReturned
  /\ exIdx <= Len(exFiles)
  /\ extractedContents' = ExtractStep(extractedContents, exFiles[exIdx], exLimit)
  /\ exIdx' = exIdx + 1
  /\ UNCHANGED <<exFiles, exLimit, exReturned>>
  /\ UNCHANGED <<synVars, layVars, orchVars>>
  /\ UNCHANGED <<promptVars, twVars, citeVars>>

\* `return extractedContents`
ExtractReturn ==
  /\ ~exReturned
  /\ exIdx > Len(exFiles)
  /\ exReturned' = TRUE
  /\ UNCHANGED <<exFiles, exLimit, exIdx, extractedContents>>
  /\ UNCHANGED <<synVars, layVars, orchVars>>
  /\ UNCHANGED <<promptVars, twVars, citeVars>>

NextExtract == ExtractFile \/ ExtractReturn

SpecExtract == InitExtract /\ [][NextExtract]_vars

\* ---- generateMindMapWithGemini as a process: called, awaiting the model,
\* settled with the value it returns or the exception it raises.
InitSynth ==
  /\ ExtractIdle
  /\ synOutcome \in GeminiOutcomes
  /\ synPc = "idle"
  /\ synResult = Returned(TRUE, JsonOther("null"), FALSE)
  /\ LayoutIdle
  /\ OrchIdle
  /\ PromptIdle
  /\ TypewriterIdle
  /\ CitationsIdle

\* the call up to `await flash.generateContent(prompt)`
SynthCall ==
  /\ synPc = "idle"
  /\ synPc' = "awaiting"
  /\ UNCHANGED <<synOutcome, synResult>>
  /\ UNCHANGED <<exVars, layVars, orchVars>>
  /\ UNCHANGED <<promptVars, twVars, citeVars>>

\* the rest of the function once the model call has settled
SynthSettle ==
  /\ synPc = "awaiting"
  /\ synResult' = generateMindMapWithGemini(synOutcome)
  /\ synPc' = "settled"
  /\ UNCHANGED synOutcome
  /\ UNCHANGED <<exVars, layVars, orchVars>>
  /\ UNCHANGED <<promptVars, twVars, citeVars>>

NextSynth == SynthCall \/ SynthSettle

SpecSynth == InitSynth /\ [][NextSynth]_vars

\* ---- applyDagreLayout called on one input, before and after a call on
\* another graph, and called again on the same input.
\* The node lists tried are all lists over three ids up to a renaming of the
\* ids (the first id of a list is "a", a new id is the next unused letter);
\* an id may repeat; the edges run between any of the three ids, so an edge
\* may name an id that is not in the node list.
IdOrder == <<"a", "b", "c">>
LayoutIds == Range(IdOrder)
FirstUse(ks) ==
  \A i \in DOMAIN ks : \A k \in 1..(ks[i] - 1) : \E j \in 1..(i - 1) : ks[j] = k
NodeLists ==
  {[i \in DOMAIN ks |-> ReactFlowNode(IdOrder[ks[i]], IdOrder[ks[i]])] :
      ks \in {s \in SeqsUpTo(DOMAIN IdOrder, MaxNodes) : FirstUse(s)}}
EdgeLists ==
  {[i \in DOMAIN ps |-> ReactFlowEdge(i, ps[i][1], ps[i][2])] :
      ps \in SeqsUpTo(LayoutIds \X LayoutIds, MaxEdges)}
Directions == {"TB", "LR"}
OtherNodes == <<ReactFlowNode("x", "x"), ReactFlowNode("a", "a")>>
OtherEdges == <<ReactFlowEdge(1, "x", "a")>>

LayoutResult(r) ==
  [raised |-> r.raised, layoutedNodes |-> r.layoutedNodes, layoutedEdges |-> r.layoutedEdges]

InitLayout ==
  /\ ExtractIdle
  /\ SynthIdle
  /\ OrchIdle
  /\ layNodes \in NodeLists
  /\ layEdges \in EdgeLists
  /\ layDirection \in Directions
  /\ layPhase = "start"
  /\ layResult = NoLayout
  /\ layFirst = NoLayout
  /\ dagreGraph = EmptyGraph
  /\ PromptIdle
  /\ TypewriterIdle
  /\ CitationsIdle

\* the first call on the input
LayoutFirstCall ==
  /\ layPhase \in {"start", "preceded"}
  /\ LET r == applyDagreLayout(layNodes, layEdges, layDirection)
     IN /\ layResult' = LayoutResult(r)
        /\ layFirst' = LayoutResult(r)
        /\ dagreGraph' = r.graph
  /\ layPhase' = "called"
  /\ UNCHANGED <<layNodes, layEdges, layDirection, exVars, synVars, orchVars>>
  /\ UNCHANGED <<promptVars, twVars, citeVars>>

\* a call on another graph, before or after the first call
LayoutOtherCall ==
  /\ layPhase \in {"start", "called"}
  /\ dagreGraph' = applyDagreLayout(OtherNodes, OtherEdges, "TB").graph
  /\ layPhase' = IF layPhase = "start" THEN "preceded" ELSE "interleaved"
  /\ UNCHANGED <<layNodes, layEdges, layDirection, layResult, layFirst, exVars, synVars, orchVars>>
  /\ UNCHANGED <<promptVars, twVars, citeVars>>

\* a second call on the same input
LayoutSecondCall ==
  /\ layPhase \in {"called", "interleaved"}
  /\ LET r == applyDagreLayout(layNodes, layEdges, layDirection)
     IN /\ layResult' = LayoutResult(r)
        /\ dagreGraph' = r.graph
  /\ layPhase' = IF layPhase = "interleaved" THEN "recalledAfterOther" ELSE "recalled"
  /\ UNCHANGED <<layNodes, layEdges, layDirection, layFirst, exVars, synVars, orchVars>>
  /\ UNCHANGED <<promptVars, twVars, citeVars>>

NextLayout == LayoutFirstCall \/ LayoutOtherCall \/ LayoutSecondCall

SpecLayout == InitLayout /\ [][NextLayout]_vars

\* ------------------------------------------------------ Pipeline Orchestrator
\* The four messages handleGenerateMindMap hands to setMindMapError; "null"
\* is the state's null.
MsgNoFiles == "Please upload at least one file to generate a Mind Map."
MsgNoApiKey == "Gemini API key is not configured. Cannot generate Mind Map."
MsgBadResponse == "Could not generate the mind map. The AI's response was not in the expected format or was empty."
MsgException == "An error occurred while generating the mind map. Please check the console for details."

\* import.meta.env.VITE_GEMINI_API_KEY of a build: not set, set to the empty
\* string, or set to a key; `!apiKey` holds of the first two.
ApiKeys == {"undefined", "", "AIza"}
NoApiKey(key) == key \in {"undefined", ""}

\* `extractContentFromFiles(uploadedFiles, 5000)`
charLimitOfHandler == 5000

\* What the handler appends to callLog, in the order of its lines.
CallExtract == "extractContentFromFiles"
Extracted == "extracted"
CallSynthesize == "generateMindMapWithGemini"
Synthesized == "synthesized"
CallLayout == "applyDagreLayout"
LaidOut == "laidOut"
Published == "published"
Failed == "failed"

\* `if (!apiKey) { ... return; }`: the state it sets
MissingKeyBranchMutFlagLeft ==
  [mindMapError |-> MsgNoApiKey, isMindMapOpen |-> TRUE, isGeneratingMap |-> TRUE]
MissingKeyBranch ==
  [mindMapError |-> MsgNoApiKey, isMindMapOpen |-> TRUE, isGeneratingMap |-> FALSE]

\* the first lines of the try block: the state they set before extraction
StartBranchMutKeepsGraph ==
  [mindMapNodes |-> mindMapNodes, mindMapEdges |-> mindMapEdges, isMindMapOpen |-> TRUE]
StartBranch ==
  [mindMapNodes |-> <<>>, mindMapEdges |-> <<>>, isMindMapOpen |-> TRUE]

\* `geminiResponse.nodes.map(...)`, `geminiResponse.edges.map(...)`: only an
\* array has a map method, on any other truthy value the call is a TypeError.
MapNodes(prop) ==
  IF prop.tag = "array"
    THEN [threw |-> FALSE,
          value |-> [i \in 1..Len(prop.items) |->
                       ReactFlowNode(prop.items[i].id, prop.items[i].label)]]
    ELSE [threw |-> TRUE, value |-> <<>>]
MapEdges(prop) ==
  IF prop.tag = "array"
    THEN [threw |-> FALSE,
          value |-> [i \in 1..Len(prop.items) |->
                       ReactFlowEdge(i, prop.items[i].source, prop.items[i].target)]]
    ELSE [threw |-> TRUE, value |-> <<>>]

\* `geminiResponse && geminiResponse.nodes && geminiResponse.edges`
Accepted(response) ==
  ~response.isNull /\ Truthy(response.value.nodes) /\ Truthy(response.value.edges)

\* What the rest of the try block does once the synthesizer has settled: the
\* calls it makes, whether it throws, the error or the graph it sets.
Outcome(threw, calls, error, publishes, nodes, edges, graph) ==
  [threw |-> threw, calls |-> calls, error |-> error, publishes |-> publishes,
   nodes |-> nodes, edges |-> edges, graph |-> graph]

\* the accepted branch: map, lay out, publish
AcceptedBranchMutNoLayout(response, graph) ==
  LET n == MapNodes(response.value.nodes)
      e == MapEdges(response.value.edges)
  IN IF n.threw \/ e.threw
       THEN Outcome(TRUE, <<>>, "null", FALSE, <<>>, <<>>, graph)
       ELSE Outcome(FALSE, <<Published>>, "null", TRUE, n.value, e.value, graph)
AcceptedBranch(response, graph) ==
  LET n == MapNodes(response.value.nodes)
      e == MapEdges(response.value.edges)
  IN IF n.threw \/ e.threw
       THEN Outcome(TRUE, <<>>, "null", FALSE, <<>>, <<>>, graph)
       ELSE LET r == applyDagreLayout(n.value, e.value, "TB")
            IN IF r.raised
                 THEN Outcome(TRUE, <<CallLayout>>, "null", FALSE, <<>>, <<>>, r.graph)
                 ELSE Outcome(FALSE, <<CallLayout, LaidOut, Published>>, "null", TRUE,
                              r.layoutedNodes, r.layoutedEdges, r.graph)

\* the else branch: the response is null
RejectedBranchMutGeneric(graph) ==
  Outcome(FALSE, <<Failed>>, MsgException, FALSE, <<>>, <<>>, graph)
RejectedBranch(graph) ==
  Outcome(FALSE, <<Failed>>, MsgBadResponse, FALSE, <<>>, <<>>, graph)

\* the catch block of the handler
HandlerCatchMutSilent(t) == [t EXCEPT !.calls = Append(@, Failed)]
HandlerCatch(t) == [t EXCEPT !.calls = Append(@, Failed), !.error = MsgException]

\* try/catch around the branch taken
TryCatch(t) == IF t.threw THEN HandlerCatch(t) ELSE t

\* lines 357-389: from the settling of generateMindMapWithGemini to the end
\* of try/catch
AfterSynthesis(response, graph) ==
  IF response.raised
    THEN HandlerCatch(Outcome(TRUE, <<>>, "null", FALSE, <<>>, <<>>, graph))
    ELSE [TryCatch(IF Accepted(response) THEN AcceptedBranch(response, graph)
                   ELSE RejectedBranch(graph))
            EXCEPT !.calls = <<Synthesized>> \o @]

\* ---- the prompt. A Message of the thread: its type, and its content, a
\* string or a list of parts (text holds the characters either way).
Message(type, isString, text) == [type |-> type, isString |-> isString, text |-> text]

\* JSON.stringify of a content that is a list with one text part
JsonStringify(text) == <<"[{\"type\":\"text\",\"text\":\"">> \o text \o <<"\"}]">>

\* `typeof msg.content === 'string' ? msg.content : JSON.stringify(msg.content)`
ContentString(msg) == IF msg.isString THEN msg.text ELSE JsonStringify(msg.text)

\* App: currentAiResponse and currentUserQuestion, derived from the thread
CurrentAiResponse(thread) ==
  IF thread # <<>> /\ thread[Len(thread)].type = "ai"
    THEN ContentString(thread[Len(thread)])
    ELSE <<>>
CurrentUserQuestion(thread) ==
  IF thread = <<>> THEN <<>>
  ELSE IF thread[Len(thread)].type = "ai"
    THEN (IF Len(thread) > 1 /\ thread[Len(thread) - 1].type = "human"
            THEN ContentString(thread[Len(thread) - 1]) ELSE <<>>)
  ELSE IF thread[Len(thread)].type = "human" THEN ContentString(thread[Len(thread)])
  ELSE <<>>

\* the fixed text of the template literal, piece by piece
PromptIntro == "Based on the following information, generate a mind map. [...] **Rules for Mind Map Generation:** 1. [...] 7. Edges define the connections FROM a parent (source) TO a child (target)."
HdrQuestion == "**Original User Question (if available):**"
HdrHistory == "**Chat History (if available):**"
HdrAnswer == "**Final AI Answer (if available, this is the primary subject for the mind map):**"
HdrExcerpts == "**Excerpts from Uploaded Files:**"
PromptOutro == "Generate the mind map structure according to the JSON schema provided previously. [...]"
NoQuestion == "Not specified."
NoHistory == "No chat history provided."
NoAnswer == "No specific AI answer provided. Focus on file content."

\* `text || placeholder`: the empty string is falsy
OrElse(text, placeholder) == IF text = <<>> THEN <<placeholder>> ELSE text

\* one element of `chatHistory.map(...)`
FormatTurnMutRolesSwapped(msg) ==
  <<IF msg.type = "human" THEN "AI" ELSE "User", ": ">> \o ContentString(msg)
FormatTurn(msg) ==
  <<IF msg.type = "human" THEN "User" ELSE "AI", ": ">> \o ContentString(msg)
FormattedChatHistory(history) ==
  Join([i \in DOMAIN history |-> FormatTurn(history[i])], <<"\n">>)

\* one element of `fileContents.map(...)`
FormatExcerpt(fc) == <<"File: ", fc.name, "\nContent:\n">> \o fc.text \o <<"\n---">>
FormattedFileExcerpts(contents) ==
  Join([i \in DOMAIN contents |-> FormatExcerpt(contents[i])], <<"\n\n">>)

\* the template literal geminiPrompt
GeminiPromptMutAnswerBeforeHistory(question, history, answer, contents) ==
  <<PromptIntro, HdrQuestion>> \o OrElse(question, NoQuestion)
    \o <<HdrAnswer>> \o OrElse(answer, NoAnswer)
    \o <<HdrHistory>> \o OrElse(FormattedChatHistory(history), NoHistory)
    \o <<HdrExcerpts>> \o FormattedFileExcerpts(contents)
    \o <<PromptOutro>>
GeminiPrompt(question, history, answer, contents) ==
  <<PromptIntro, HdrQuestion>> \o OrElse(question, NoQuestion)
    \o <<HdrHistory>> \o OrElse(FormattedChatHistory(history), NoHistory)
    \o <<HdrAnswer>> \o OrElse(answer, NoAnswer)
    \o <<HdrExcerpts>> \o FormattedFileExcerpts(contents)
    \o <<PromptOutro>>

\* the threads tried: up to MaxTurns messages of any type, with a string or
\* a list of parts for content, empty or not; the thread of one question and
\* its answer
MessageTypes == {"human", "ai", "tool"}
TurnTexts == {<<>>, <<"m">>}
ThreadMessages == {Message(t, s, x) : t \in MessageTypes, s \in BOOLEAN, x \in TurnTexts}
Threads == SeqsUpTo(ThreadMessages, MaxTurns)
OneTurnThread == <<Message("human", TRUE, <<"q">>), Message("ai", TRUE, <<"r">>)>>

\* ---- the files a user selects: any of the three files of one folder, which
\* the file input lists in the folder's order
FolderFiles ==
  <<[name |-> "f1", type |-> TxtType, readable |-> TRUE, pages |-> <<>>, text |-> TextOfLen(1)],
    [name |-> "f2", type |-> PdfType, readable |-> FALSE, pages |-> PdfOfPages(1), text |-> <<>>],
    [name |-> "f3", type |-> OtherType, readable |-> TRUE, pages |-> <<>>, text |-> TextOfLen(1)]>>
Selections ==
  {SelectSeq(FolderFiles, LAMBDA f : f.name \in picked) :
     picked \in SUBSET {FolderFiles[i].name : i \in DOMAIN FolderFiles}}

\* ---- the ways the model call of a generation settles: it throws, answers
\* malformed text, a JSON null, an object lacking or mistyping nodes or
\* edges, or a graph: empty, a single node, an edge to an id no node has,
\* two nodes without an edge, a chain, a cycle
OrchOutcomes ==
  {Threw(ErrorOf("Error", <<"fetch failed">>)),
   Threw(ErrorOf("Error", <<"API key not valid">>)),
   Responded(FALSE, JsonOther("null")),
   Responded(TRUE, JsonOther("null")),
   Responded(TRUE, JsonObject(Absent, Prop("array", <<>>))),
   Responded(TRUE, JsonObject(Prop("array", <<NodeA>>), Prop("null", <<>>))),
   Responded(TRUE, JsonObject(Prop("string", <<>>), Prop("array", <<>>))),
   Responded(TRUE, JsonObject(Prop("array", <<NodeA>>), Prop("object", <<>>))),
   Responded(TRUE, JsonObject(Prop("array", <<>>), Prop("array", <<>>))),
   Responded(TRUE, JsonObject(Prop("array", <<NodeA>>), Prop("array", <<>>))),
   Responded(TRUE, JsonObject(Prop("array", <<NodeA>>),
                              Prop("array", <<GeminiEdge("a", "b")>>))),
   Responded(TRUE, JsonObject(Prop("array", <<NodeA, NodeB>>), Prop("array", <<>>))),
   Responded(TRUE, JsonObject(Prop("array", <<NodeA, NodeB>>),
                              Prop("array", <<GeminiEdge("a", "b")>>))),
   Responded(TRUE, JsonObject(Prop("array", <<NodeA, NodeB>>),
                              Prop("array", <<GeminiEdge("a", "b"), GeminiEdge("b", "a")>>)))}

Init ==
  /\ ExtractIdle
  /\ SynthIdle
  /\ LayoutIdle
  /\ apiKey \in ApiKeys
  /\ uploadedFiles = <<>>
  /\ mindMapError = "null"
  /\ isGeneratingMap = FALSE
  /\ isMindMapOpen = FALSE
  /\ mindMapNodes = <<>>
  /\ mindMapEdges = <<>>
  /\ genPc = "idle"
  /\ genFiles = <<>>
  /\ fileContents = <<>>
  /\ callLog = <<>>
  /\ genOutcome = Responded(FALSE, JsonOther("null"))
  /\ chatHistory = OneTurnThread
  /\ currentUserQuestion = CurrentUserQuestion(chatHistory)
  /\ currentAiResponse = CurrentAiResponse(chatHistory)
  /\ geminiPrompt = <<>>
  /\ TypewriterIdle
  /\ CitationsIdle

genVars == <<mindMapError, isGeneratingMap, isMindMapOpen, mindMapNodes, mindMapEdges,
             genPc, genFiles, fileContents, callLog, genOutcome>>

\* the file input changes: `setUploadedFiles(Array.from(event.target.files))`
handleFileChange ==
  /\ \E files \in Selections : uploadedFiles' = files
  /\ UNCHANGED <<apiKey, genVars, exVars, synVars, layVars>>
  /\ UNCHANGED <<promptVars, twVars, citeVars>>

\* the remove button of one listed file
removeFile ==
  /\ \E i \in DOMAIN uploadedFiles :
       uploadedFiles' = SelectSeq(uploadedFiles, LAMBDA f : f.name # uploadedFiles[i].name)
  /\ UNCHANGED <<apiKey, genVars, exVars, synVars, layVars>>
  /\ UNCHANGED <<promptVars, twVars, citeVars>>

\* a query is submitted: App clears the selection
handleSubmit ==
  /\ uploadedFiles' = <<>>
  /\ UNCHANGED <<apiKey, genVars, exVars, synVars, layVars>>
  /\ UNCHANGED <<promptVars, twVars, citeVars>>

\* The Mind Map button: `uploadedFiles.length > 0 && (<Button ...
\* disabled={isGeneratingMap || uploadedFiles.length === 0}>)`
MindMapButtonEnabledMutIgnoresFlag == uploadedFiles # <<>>
MindMapButtonEnabled == uploadedFiles # <<>> /\ ~isGeneratingMap

\* The Mind Map button is clicked (it is rendered while files are selected,
\* and disabled while isGeneratingMap): handleGenerateMindMap up to its
\* first await, or to its return.
handleGenerateMindMap ==
  /\ MindMapButtonEnabled
  /\ IF uploadedFiles = <<>>
       THEN /\ mindMapError' = MsgNoFiles
            /\ UNCHANGED <<isGeneratingMap, isMindMapOpen, mindMapNodes, mindMapEdges,
                           genPc, genFiles, callLog>>
       ELSE IF NoApiKey(apiKey)
         THEN /\ mindMapError' = MissingKeyBranch.mindMapError
              /\ isMindMapOpen' = MissingKeyBranch.isMindMapOpen
              /\ isGeneratingMap' = MissingKeyBranch.isGeneratingMap
              /\ callLog' = <<Failed>>
              /\ UNCHANGED <<mindMapNodes, mindMapEdges, genPc, genFiles>>
         ELSE /\ mindMapError' = "null"
              /\ isGeneratingMap' = TRUE
              /\ mindMapNodes' = StartBranch.mindMapNodes
              /\ mindMapEdges' = StartBranch.mindMapEdges
              /\ isMindMapOpen' = StartBranch.isMindMapOpen
              /\ genFiles' = uploadedFiles
              /\ genPc' = "awaitExtract"
              /\ callLog' = <<CallExtract>>
  /\ UNCHANGED <<apiKey, uploadedFiles, fileContents, genOutcome, exVars, synVars, layVars>>
  /\ UNCHANGED <<promptVars, twVars, citeVars>>

\* extractContentFromFiles has settled: the handler builds the prompt and
\* calls generateMindMapWithGemini
ResumeAfterExtract ==
  /\ genPc = "awaitExtract"
  /\ fileContents' = extractContentFromFiles(genFiles, charLimitOfHandler)
  /\ genPc' = "awaitSynth"
  /\ callLog' = callLog \o <<Extracted, CallSynthesize>>
  /\ UNCHANGED <<apiKey, uploadedFiles, mindMapError, isGeneratingMap, isMindMapOpen,
                 mindMapNodes, mindMapEdges, genFiles, genOutcome, exVars, synVars, layVars>>
  /\ geminiPrompt' = GeminiPrompt(currentUserQuestion, chatHistory, currentAiResponse, fileContents')
  /\ UNCHANGED <<ctxVars, twVars, citeVars>>

\* `finally { setIsGeneratingMap(false); }`: the flag it leaves
FinallyBlockMutSkipped == isGeneratingMap
FinallyBlock == FALSE

\* generateMindMapWithGemini has settled: the rest of the handler, with its
\* catch and its finally
ResumeAfterSynthesis ==
  /\ genPc = "awaitSynth"
  /\ \E outcome \in OrchOutcomes :
       LET t == AfterSynthesis(generateMindMapWithGemini(outcome), dagreGraph)
       IN /\ callLog' = callLog \o t.calls
          /\ mindMapError' = IF t.error = "null" THEN mindMapError ELSE t.error
          /\ mindMapNodes' = IF t.publishes THEN t.nodes ELSE mindMapNodes
          /\ mindMapEdges' = IF t.publishes THEN t.edges ELSE mindMapEdges
          /\ dagreGraph' = t.graph
          /\ genOutcome' = outcome
  /\ isGeneratingMap' = FinallyBlock
  /\ genPc' = "idle"
  /\ UNCHANGED <<apiKey, uploadedFiles, isMindMapOpen, genFiles, fileContents>>
  /\ UNCHANGED <<layNodes, layEdges, layDirection, layPhase, layResult, layFirst>>
  /\ UNCHANGED <<exVars, synVars>>
  /\ UNCHANGED <<promptVars, twVars, citeVars>>

\* the close button of the display: App's onClose
onCloseMutKeepsError ==
  /\ isMindMapOpen
  /\ isMindMapOpen' = FALSE
  /\ UNCHANGED <<apiKey, uploadedFiles, mindMapError, isGeneratingMap, mindMapNodes,
                 mindMapEdges, genPc, genFiles, fileContents, callLog, genOutcome,
                 exVars, synVars, layVars>>
  /\ UNCHANGED <<promptVars, twVars, citeVars>>
onClose ==
  /\ isMindMapOpen
  /\ isMindMapOpen' = FALSE
  /\ mindMapError' = "null"
  /\ UNCHANGED <<apiKey, uploadedFiles, isGeneratingMap, mindMapNodes, mindMapEdges,
                 genPc, genFiles, fileContents, callLog, genOutcome, exVars, synVars, layVars>>
  /\ UNCHANGED <<promptVars, twVars, citeVars>>

\* App: `isGenerating={mindMapNodes.length === 0 && !mindMapError && isMindMapOpen}`
IsGeneratingInferred == mindMapNodes = <<>> /\ mindMapError = "null" /\ isMindMapOpen

\* MindMapDisplay: the content it selects from its props
MindMapDisplayContent(nodes, error, isGenerating) ==
  IF error # "null" THEN "failure"
  ELSE IF isGenerating \/ (nodes = <<>> /\ error = "null") THEN "working"
  ELSE IF nodes # <<>> THEN "graph"
  ELSE "noData"

\* what is on screen: App mounts the display only while isMindMapOpen
Display ==
  IF isMindMapOpen
    THEN MindMapDisplayContent(mindMapNodes, mindMapError, IsGeneratingInferred)
    ELSE "closed"

Next ==
  \/ handleFileChange
  \/ removeFile
  \/ handleSubmit
  \/ handleGenerateMindMap
  \/ ResumeAfterExtract
  \/ ResumeAfterSynthesis
  \/ onClose

Spec == Init /\ [][Next]_vars

\* The two awaits of the handler settle: extractContentFromFiles returns
\* (it never throws), the model call returns or throws, and the handler's
\* continuation then runs.
SpecLive ==
  Init /\ [][Next]_vars /\ WF_vars(ResumeAfterExtract) /\ WF_vars(ResumeAfterSynthesis)

\* ---- the handler from the click to its call of the synthesizer, for every
\* thread and every selection of files (the empty thread, on which App shows
\* the welcome screen, included)
InitPrompt ==
  /\ ExtractIdle
  /\ SynthIdle
  /\ LayoutIdle
  /\ TypewriterIdle
  /\ CitationsIdle
  /\ apiKey = "AIza"
  /\ uploadedFiles \in Selections \ {<<>>}
  /\ mindMapError = "null"
  /\ isGeneratingMap = FALSE
  /\ isMindMapOpen = FALSE
  /\ mindMapNodes = <<>>
  /\ mindMapEdges = <<>>
  /\ genPc = "idle"
  /\ genFiles = <<>>
  /\ fileContents = <<>>
  /\ callLog = <<>>
  /\ genOutcome = Responded(FALSE, JsonOther("null"))
  /\ chatHistory \in Threads
  /\ currentUserQuestion = CurrentUserQuestion(chatHistory)
  /\ currentAiResponse = CurrentAiResponse(chatHistory)
  /\ geminiPrompt = <<>>

NextPrompt == handleGenerateMindMap \/ ResumeAfterExtract

SpecPrompt == InitPrompt /\ [][NextPrompt]_vars

\* the files of the run that extractContentFromFiles has an entry for
SupportedOf(files) == SelectSeq(files, IsSupported)

\* ---- claims about the prompt (checked under SpecPrompt)
PromptBuilt == genPc = "awaitSynth"
Positions(seq, token) == {i \in DOMAIN seq : seq[i] = token}
Pos(seq, token) == CHOOSE i \in DOMAIN seq : seq[i] = token
\* what stands in the prompt between two of its headings
Between(first, second) ==
  SubSeq(geminiPrompt, Pos(geminiPrompt, first) + 1, Pos(geminiPrompt, second) - 1)
RECURSIVE SplitOn(_, _)
\* the stretches of a text between the occurrences of a separator
SplitOn(s, sep) ==
  IF s = <<>> THEN <<>>
  ELSE IF Positions(s, sep) = {} THEN <<s>>
  ELSE LET k == CHOOSE i \in Positions(s, sep) : \A j \in Positions(s, sep) : i <= j
       IN <<SubSeq(s, 1, k - 1)>> \o SplitOn(SubSeq(s, k + 1, Len(s)), sep)
Headings == <<HdrQuestion, HdrHistory, HdrAnswer, HdrExcerpts, PromptOutro>>
RoleOf(msg) == IF msg.type = "human" THEN "User" ELSE "AI"

Update(kind, value) == [kind |-> kind, value |-> value]

\* String.prototype.charAt: the empty string outside the text
CharAt(text, i) == IF i >= 0 /\ i < Len(text) THEN <<text[i + 1]>> ELSE <<>>

\* `prevText => prevText + text.charAt(i)`, run now: it reads the closure's
\* i as it is when the updater runs
RunUpdater(prevText) == prevText \o CharAt(twClosureText, twIndex)

\* the state after one queued update
ApplyUpdate(prevText, update) ==
  IF update.kind \in {"reset", "eager"} THEN update.value
  ELSE IF update.kind = "updater" THEN RunUpdater(prevText)
  ELSE prevText \o update.value

RECURSIVE ProcessQueue(_, _)
\* a render: React applies the queued updates in order
ProcessQueue(prevText, queue) ==
  IF queue = <<>> THEN prevText
  ELSE ProcessQueue(ApplyUpdate(prevText, Head(queue)), Tail(queue))

\* clearInterval in the cleanup: i changes no more, so every updater of the
\* cleared interval that is yet to run will read the i of now
SettleUpdaters(queue) ==
  [k \in DOMAIN queue |->
     IF queue[k].kind = "updater"
       THEN Update("append", CharAt(twClosureText, twIndex))
       ELSE queue[k]]

\* setDisplayedText(value) with a plain value: nothing is queued when no
\* update is pending and the state already is that value
SetPlain(queue, value) ==
  IF queue = <<>> /\ twDisplayed = value THEN queue
  ELSE Append(queue, Update("reset", value))

\* the texts tried: the stretches of the alphabet from its first or second
\* letter, up to MaxText characters, the empty text among them
TwTexts == {SubSeq(Alphabet, j, j + k - 1) : j \in 1..2, k \in 0..MaxText}

\* the hook is mounted with some text; its effect has yet to run
InitTypewriter ==
  /\ ExtractIdle
  /\ SynthIdle
  /\ LayoutIdle
  /\ OrchIdle
  /\ PromptIdle
  /\ CitationsIdle
  /\ twText \in TwTexts
  /\ twClosureText = <<>>
  /\ twDisplayed = <<>>
  /\ twIndex = 0
  /\ twInterval = FALSE
  /\ twQueue = <<>>
  /\ twEffectPending = TRUE

\* The effect of a render with a new text (or of the mount): the cleanup of
\* the effect before it, then its body.
RunEffect ==
  /\ twEffectPending
  /\ twQueue' = SetPlain(SettleUpdaters(twQueue), <<>>)
  /\ IF twText # <<>>
       THEN /\ twClosureText' = twText
            /\ twIndex' = 0
            /\ twInterval' = TRUE
       ELSE /\ twInterval' = FALSE
            /\ UNCHANGED <<twClosureText, twIndex>>
  /\ twEffectPending' = FALSE
  /\ UNCHANGED <<twText, twDisplayed>>
  /\ UNCHANGED <<exVars, synVars, layVars, orchVars, promptVars, citeVars>>

\* The interval callback. React runs the updater at once when it holds no
\* pending update for the component, and otherwise (or when it does not take
\* that shortcut) at the next render, after `i++`.
Tick ==
  /\ twInterval
  /\ IF twIndex < Len(twClosureText)
       THEN /\ \/ /\ twQueue = <<>>
                  /\ twQueue' = <<Update("eager", RunUpdater(twDisplayed))>>
               \/ twQueue' = Append(twQueue, Update("updater", <<>>))
            /\ twIndex' = twIndex + 1
            /\ UNCHANGED twInterval
       ELSE /\ twInterval' = FALSE
            /\ UNCHANGED <<twQueue, twIndex>>
  /\ UNCHANGED <<twText, twClosureText, twDisplayed, twEffectPending>>
  /\ UNCHANGED <<exVars, synVars, layVars, orchVars, promptVars, citeVars>>

\* React renders the component for its queued updates (pending effects run
\* before a render starts)
Render ==
  /\ ~twEffectPending
  /\ twQueue # <<>>
  /\ twDisplayed' = ProcessQueue(twDisplayed, twQueue)
  /\ twQueue' = <<>>
  /\ UNCHANGED <<twText, twClosureText, twIndex, twInterval, twEffectPending>>
  /\ UNCHANGED <<exVars, synVars, layVars, orchVars, promptVars, citeVars>>

\* The caller renders the hook with another text: the render applies the
\* queued updates, and the effect is scheduled since `text` changed.
SetText ==
  /\ ~twEffectPending
  /\ \E text \in TwTexts \ {twText} : twText' = text
  /\ twDisplayed' = ProcessQueue(twDisplayed, twQueue)
  /\ twQueue' = <<>>
  /\ twEffectPending' = TRUE
  /\ UNCHANGED <<twClosureText, twIndex, twInterval>>
  /\ UNCHANGED <<exVars, synVars, layVars, orchVars, promptVars, citeVars>>

NextTypewriter == RunEffect \/ Tick \/ Render \/ SetText

SpecTypewriter == InitTypewriter /\ [][NextTypewriter]_vars

\* ---- claims about useTypewriter (checked under SpecTypewriter)
IsPrefix(s, t) == Len(s) <= Len(t) /\ s = SubSeq(t, 1, Len(s))
\* the reset of the latest text change has been rendered
ResetDone ==
  /\ ~twEffectPending
  /\ \A k \in DOMAIN twQueue : twQueue[k].kind # "reset"

\* C29: once the reset of a text change has been rendered, the displayed
\* text is at every moment a prefix of the text, whenever the queued
\* updaters run.
C29_DisplayedIsPrefix == ResetDone => IsPrefix(twDisplayed, twText)

\* ------------------------------------------------- AiMessageBubble citations
\* getCitationNumberForUrl(url): the map and the list after the call, and the
\* number returned
getCitationNumberForUrlMutNoLookup(map, links, url) ==
  [map |-> (url :> Len(links) + 1) @@ map,
   links |-> Append(links, url),
   number |-> Len(links) + 1]
getCitationNumberForUrl(map, links, url) ==
  IF url \in DOMAIN map
    THEN [map |-> map, links |-> links, number |-> map[url]]
    ELSE [map |-> (url :> Len(links) + 1) @@ map,
          links |-> Append(links, url),
          number |-> Len(links) + 1]

\* the hrefs of the links of a message; a link without href requests no number
Urls == {"u1", "u2", "u3"}
Hrefs == Urls \cup {""}

InitCitations ==
  /\ ExtractIdle
  /\ SynthIdle
  /\ LayoutIdle
  /\ OrchIdle
  /\ PromptIdle
  /\ TypewriterIdle
  /\ messageCitationMap = <<>>
  /\ messageCitationLinks = <<>>
  /\ citeRequests = <<>>
  /\ citeNumbers = <<>>

\* a rendering of AiMessageBubble starts: a new map and a new list
RenderBubble ==
  /\ citeRequests # <<>>
  /\ messageCitationMap' = <<>>
  /\ messageCitationLinks' = <<>>
  /\ citeRequests' = <<>>
  /\ citeNumbers' = <<>>
  /\ UNCHANGED <<exVars, synVars, layVars, orchVars, promptVars, twVars>>

\* the `a` component renders one link of the message
RenderLink ==
  /\ Len(citeRequests) < MaxRequests
  /\ \E href \in Hrefs :
       IF href = ""
         THEN UNCHANGED citeVars
         ELSE LET r == getCitationNumberForUrl(messageCitationMap, messageCitationLinks, href)
              IN /\ messageCitationMap' = r.map
                 /\ messageCitationLinks' = r.links
                 /\ citeRequests' = Append(citeRequests, href)
                 /\ citeNumbers' = Append(citeNumbers, r.number)
  /\ UNCHANGED <<exVars, synVars, layVars, orchVars, promptVars, twVars>>

NextCitations == RenderBubble \/ RenderLink

SpecCitations == InitCitations /\ [][NextCitations]_vars

\* ---- claims about the citations (checked under SpecCitations)
\* the request at which the url of request k was first requested, and the
\* distinct urls requested up to a request
FirstRequestOf(k) ==
  CHOOSE j \in 1..k :
    /\ citeRequests[j] = citeRequests[k]
    /\ \A h \in 1..(j - 1) : citeRequests[h] # citeRequests[k]
DistinctUpTo(j) == {citeRequests[h] : h \in 1..j}

\* C30: within one rendering, request k is answered with the number of
\* distinct urls requested up to the first request of its url (the first
\* url gets 1, the k-th distinct url gets k, a repeated url its first
\* number), and the list holds each requested url once, the url numbered n
\* at position n.
C30_NumberedByFirstAppearance ==
  /\ Len(citeNumbers) = Len(citeRequests)
  /\ \A k \in DOMAIN citeRequests :
       /\ citeNumbers[k] = Cardinality(DistinctUpTo(FirstRequestOf(k)))
       /\ messageCitationLinks[citeNumbers[k]] = citeRequests[k]
  /\ Len(messageCitationLinks) = Cardinality(DistinctUpTo(Len(citeRequests)))
  /\ \A m, n \in DOMAIN messageCitationLinks :
       messageCitationLinks[m] = messageCitationLinks[n] => m = n

C30_Witness ==
  /\ citeRequests = <<"u2", "u1", "u2", "u3">>
  /\ citeNumbers = <<1, 2, 1, 3>>
  /\ messageCitationLinks = <<"u2", "u1", "u3">>

\* ---- claims about the Pipeline Orchestrator (checked under Spec)
KeyMissing == apiKey \in {"undefined", ""}

\* C5: when the Mind Map button is clicked with files selected and no
\* credential in the build, the handler returns with the credential message
\* set, the display open and the generating flag cleared, and the run calls
\* neither extractContentFromFiles nor generateMindMapWithGemini; no run of
\* such a build ever calls them.
C5_MissingCredentialFails ==
  /\ [][(KeyMissing /\ handleGenerateMindMap) =>
          /\ mindMapError' = MsgNoApiKey
          /\ isMindMapOpen'
          /\ ~isGeneratingMap'
          /\ genPc' = "idle"
          /\ callLog' = <<Failed>>]_vars
  /\ [](KeyMissing =>
          /\ CallExtract \notin Range(callLog)
          /\ CallSynthesize \notin Range(callLog)
          /\ ~isGeneratingMap)

C5_Witness ==
  /\ KeyMissing /\ uploadedFiles # <<>>
  /\ callLog = <<Failed>>
  /\ mindMapError = MsgNoApiKey /\ isMindMapOpen /\ ~isGeneratingMap

\* the calls of a run that reaches Ready, in their order
Chain == <<CallExtract, Extracted, CallSynthesize, Synthesized, CallLayout, LaidOut, Published>>
ChainUpTo(k) == SubSeq(Chain, 1, k)

\* C6: the calls of a run are made in the one order extract, synthesize,
\* lay out, publish, each after the one before it has returned, none twice
\* and none skipped; a run that does not go on ends failed; while the
\* handler awaits extraction or synthesis nothing later has been called, and
\* a graph is on display only when the run went through layout.
C6_PhasesInOrder ==
  /\ \E k \in 0..Len(Chain) :
        \/ callLog = ChainUpTo(k)
        \/ k < Len(Chain) /\ callLog = Append(ChainUpTo(k), Failed)
  /\ genPc = "awaitExtract" => callLog = ChainUpTo(1)
  /\ genPc = "awaitSynth" => callLog = ChainUpTo(3)
  /\ genPc = "idle" =>
        callLog = <<>> \/ callLog = Chain \/ callLog[Len(callLog)] = Failed
  /\ (mindMapNodes # <<>> \/ mindMapEdges # <<>>) => callLog = Chain

C6_Witness ==
  /\ genPc = "idle" /\ ~isGeneratingMap
  /\ callLog = Chain
  /\ Len(mindMapNodes) = 2 /\ Len(mindMapEdges) = 1
  /\ isMindMapOpen /\ mindMapError = "null"

\* What the synthesizer handed the run that has just ended, and whether the
\* handler's mapping of it threw.
LatestResponse == generateMindMapWithGemini(genOutcome)
MappingThrew ==
  /\ Accepted(LatestResponse)
  /\ (MapNodes(LatestResponse.value.nodes).threw \/ MapEdges(LatestResponse.value.edges).threw)
Messages == <<MsgNoFiles, MsgNoApiKey, MsgBadResponse, MsgException>>
MessagesDiffer ==
  \A i, j \in DOMAIN Messages : (i # j => Messages[i] # Messages[j]) /\ Messages[i] # "null"

\* C13 as stated: the four messages differ, at most one is held, and a run
\* reports the credential message for a missing credential, the exception
\* message whenever something threw in a phase (the model call included),
\* and the bad-response message when the synthesizer returned null without
\* anything having been thrown.
C13_ExceptionInAnyPhaseHasOwnMessage ==
  /\ [](MessagesDiffer /\ mindMapError \in Range(Messages) \cup {"null"})
  /\ [][handleGenerateMindMap =>
          mindMapError' = (IF KeyMissing THEN MsgNoApiKey ELSE "null")]_vars
  /\ [][ResumeAfterSynthesis =>
          mindMapError' = (IF genOutcome'.threw \/ MappingThrew' THEN MsgException
                           ELSE IF LatestResponse'.isNull THEN MsgBadResponse
                           ELSE mindMapError)]_vars

\* C13 amended: the four messages differ and at most one is held; a click
\* without a credential sets the credential message; a run whose
\* synthesizer call returned null sets the bad-response message, also when
\* the null stands for an exception of the model call, which the
\* synthesizer catches; only an exception that reaches the handler (the
\* mapping of an accepted response whose nodes or edges is no array) sets
\* the exception message; a run that publishes sets none.
C13_MessageByCause ==
  /\ [](MessagesDiffer /\ mindMapError \in Range(Messages) \cup {"null"})
  /\ [][handleGenerateMindMap =>
          mindMapError' = (IF KeyMissing THEN MsgNoApiKey ELSE "null")]_vars
  /\ [][ResumeAfterSynthesis =>
          mindMapError' = (IF LatestResponse'.isNull THEN MsgBadResponse
                           ELSE IF MappingThrew' THEN MsgException
                           ELSE mindMapError)]_vars

C13_Witness ==
  /\ genPc = "idle" /\ isMindMapOpen
  /\ genOutcome.threw /\ callLog[Len(callLog)] = Failed
  /\ mindMapError = MsgBadResponse

\* the handler has returned from a run that published (Ready) or failed
AtReady == genPc = "idle" /\ callLog = Chain
AtFailed == genPc = "idle" /\ callLog # <<>> /\ callLog[Len(callLog)] = Failed

\* C14: a close of the display at Ready or at Failed leaves the display
\* closed and no message held, and the Mind Map button is then enabled
\* whenever files are selected, so that a new generation can be started.
C14_CloseReturnsToIdle ==
  [][(onClose /\ (AtReady \/ AtFailed)) =>
       /\ ~isMindMapOpen'
       /\ mindMapError' = "null"
       /\ genPc' = "idle"
       /\ (uploadedFiles' # <<>> => MindMapButtonEnabled')]_vars

C14_Witness ==
  /\ AtFailed /\ ~isMindMapOpen /\ mindMapError = "null"
  /\ ~KeyMissing /\ LatestResponse.isNull
  /\ MindMapButtonEnabled

\* C16: from the click that starts a run until the handler's finally, the
\* generating flag is set and the handler cannot be started again, whatever
\* files are selected meanwhile; the flag is set at no other time.
C16_OneGenerationAtATime ==
  /\ isGeneratingMap <=> genPc # "idle"
  /\ genPc # "idle" => ~ENABLED handleGenerateMindMap

C16_Witness ==
  /\ genPc = "awaitSynth" /\ isGeneratingMap
  /\ uploadedFiles # <<>> /\ uploadedFiles # genFiles
  /\ ~isMindMapOpen

\* Something threw in the run that has just ended: the model call, the
\* parsing, the property read of a null, or the handler's mapping.
SynthesisThrew ==
  \/ genOutcome.threw
  \/ ~genOutcome.responseText.wellFormed
  \/ genOutcome.responseText.denotes.kind = "null"
ExceptionRaised == SynthesisThrew \/ MappingThrew

C18_NullLeavesNoGraph ==
  [][(ResumeAfterSynthesis /\ LatestResponse'.isNull) =>
       /\ mindMapError' = MsgBadResponse
       /\ callLog' = Append(ChainUpTo(4), Failed)
       /\ mindMapNodes' = <<>>
       /\ mindMapEdges' = <<>>]_vars

C18_Witness ==
  /\ AtFailed /\ isMindMapOpen /\ mindMapError = MsgBadResponse
  /\ genOutcome = Responded(TRUE, JsonObject(Prop("array", <<NodeA>>), Prop("null", <<>>)))
  /\ mindMapNodes = <<>> /\ mindMapEdges = <<>>

\* C19: while a run extracts or synthesizes no message is set and the run
\* has not failed; extraction hands over one entry for each supported file
\* of the batch, with the empty text for a file that could not be read,
\* and synthesis is called with them, also when no file could be read.
C19_ExtractionNeverFails ==
  /\ genPc # "idle" => (mindMapError = "null" /\ Failed \notin Range(callLog))
  /\ genPc = "awaitSynth" =>
       /\ callLog = ChainUpTo(3)
       /\ Len(fileContents) = Len(SupportedOf(genFiles))
       /\ \A i \in DOMAIN fileContents :
            /\ fileContents[i].name = SupportedOf(genFiles)[i].name
            /\ ~SupportedOf(genFiles)[i].readable => fileContents[i].text = <<>>

C19_Witness ==
  /\ genPc = "awaitSynth"
  /\ Len(genFiles) = 1 /\ IsSupported(genFiles[1]) /\ ~genFiles[1].readable
  /\ fileContents = <<[name |-> genFiles[1].name, text |-> <<>>]>>
  /\ mindMapError = "null"

\* C20: after a close of the display no nodes and no edges are held.
C20_CloseDiscardsGraph ==
  [][onClose => (mindMapNodes' = <<>> /\ mindMapEdges' = <<>>)]_vars

\* the ids reachable from the ids S along the input edges
RECURSIVE ReachableFrom(_, _)
ReachableFrom(edges, S) ==
  LET T == S \cup {e.target : e \in {x \in Range(edges) : x.source \in S}}
  IN IF T = S THEN S ELSE ReachableFrom(edges, T)
OnCycle(edges, e) == e.source \in ReachableFrom(edges, {e.target})

\* The response text of the run denotes an object whose nodes and edges are
\* arrays, whatever graph the two arrays describe.
GraphShaped(outcome) ==
  /\ ~outcome.threw /\ outcome.responseText.wellFormed
  /\ outcome.responseText.denotes.kind = "object"
  /\ outcome.responseText.denotes.nodes.tag = "array"
  /\ outcome.responseText.denotes.edges.tag = "array"
ResponseNodes(outcome) == outcome.responseText.denotes.nodes.items
ResponseEdges(outcome) == outcome.responseText.denotes.edges.items
NodeIdsOf(outcome) == {ResponseNodes(outcome)[i].id : i \in DOMAIN ResponseNodes(outcome)}
HasDanglingEdge(outcome) ==
  \E i \in DOMAIN ResponseEdges(outcome) :
    \/ ResponseEdges(outcome)[i].source \notin NodeIdsOf(outcome)
    \/ ResponseEdges(outcome)[i].target \notin NodeIdsOf(outcome)
HasCycle(outcome) ==
  \E i \in DOMAIN ResponseEdges(outcome) :
    OnCycle(ResponseEdges(outcome), ResponseEdges(outcome)[i])
RootsOf(outcome) ==
  {v \in NodeIdsOf(outcome) :
     \A i \in DOMAIN ResponseEdges(outcome) : ResponseEdges(outcome)[i].target # v}

\* C21: a response whose nodes and edges are arrays is accepted whatever
\* graph they describe (an edge end that is no node id, a cycle, several
\* roots, no root): the synthesizer returns it as parsed and not null, the
\* handler maps every node and every edge in order, calls layout on them
\* (every edge is registered in the layout graph), publishes them and sets no
\* message.
C21_ShapeNeverRejects ==
  [][(ResumeAfterSynthesis /\ GraphShaped(genOutcome')) =>
       /\ ~LatestResponse'.isNull
       /\ LatestResponse'.value = genOutcome'.responseText.denotes
       /\ callLog' = Chain
       /\ mindMapError' = "null"
       /\ Len(mindMapNodes') = Len(ResponseNodes(genOutcome'))
       /\ \A i \in DOMAIN mindMapNodes' :
            /\ mindMapNodes'[i].id = ResponseNodes(genOutcome')[i].id
            /\ mindMapNodes'[i].data.label = ResponseNodes(genOutcome')[i].label
       /\ Len(mindMapEdges') = Len(ResponseEdges(genOutcome'))
       /\ \A i \in DOMAIN mindMapEdges' :
            /\ mindMapEdges'[i].source = ResponseEdges(genOutcome')[i].source
            /\ mindMapEdges'[i].target = ResponseEdges(genOutcome')[i].target
            /\ <<mindMapEdges'[i].source, mindMapEdges'[i].target>> \in Range(dagreGraph'.edges)]_vars

C21_Witness ==
  /\ AtReady /\ GraphShaped(genOutcome) /\ HasDanglingEdge(genOutcome)
  /\ mindMapError = "null"
  /\ Len(mindMapNodes) = 1 /\ Len(mindMapEdges) = 1
  /\ mindMapEdges[1].target \notin {mindMapNodes[i].id : i \in DOMAIN mindMapNodes}

\* the other shapes C21 names are reached as well
C21_CycleReached == AtReady /\ GraphShaped(genOutcome) /\ HasCycle(genOutcome) /\ RootsOf(genOutcome) = {}
C21_SeveralRootsReached == AtReady /\ GraphShaped(genOutcome) /\ Cardinality(RootsOf(genOutcome)) > 1

\* C25: a run that has set the generating flag ends: the handler returns
\* with the run at Ready or at Failed and the flag cleared, whatever the
\* response was and whatever the user does meanwhile; a click without a
\* credential leaves the flag cleared as well; so the button is enabled
\* again whenever files are selected.
C25_GenerationTerminates ==
  /\ isGeneratingMap ~> (~isGeneratingMap /\ genPc = "idle" /\ (AtReady \/ AtFailed))
  /\ [][handleGenerateMindMap /\ KeyMissing => ~isGeneratingMap' /\ AtFailed']_vars
  /\ []((genPc = "idle" /\ uploadedFiles # <<>>) => ENABLED handleGenerateMindMap)

C25_Witness ==
  /\ AtReady /\ ~isGeneratingMap /\ GraphShaped(genOutcome)
  /\ ResponseNodes(genOutcome) = <<>> /\ mindMapNodes = <<>>
  /\ uploadedFiles # <<>> /\ MindMapButtonEnabled

\* C26: the open display shows the working indicator only while a run is in
\* flight, the failure view exactly when a message is held, and the graph
\* when the latest run has reached Ready, also when the accepted graph has
\* no nodes.
C26_WorkingOnlyInFlight == isMindMapOpen => (Display = "working" => genPc # "idle")
C26_FailureIffMessage == isMindMapOpen => (Display = "failure" <=> mindMapError # "null")
C26_GraphAtReady == (isMindMapOpen /\ AtReady) => Display = "graph"
C26_DisplayAgreesWithState ==
  /\ C26_WorkingOnlyInFlight
  /\ C26_FailureIffMessage
  /\ C26_GraphAtReady

\* C27: whenever a message is held the display is open.
C27_MessageImpliesOpen == mindMapError # "null" => isMindMapOpen

\* ---- claims about the Layout Engine (checked under SpecLayout)
LayoutDone == layPhase \notin {"start", "preceded"}
OutNodes == layResult.layoutedNodes
FlowCoord(position) == IF layDirection = "TB" THEN position.y ELSE position.x

\* the flow-axis coordinate grows along edge e, for every pair of output
\* nodes that carry its end ids
GrowsAlong(e) ==
  \A i, j \in DOMAIN OutNodes :
    (OutNodes[i].id = e.source /\ OutNodes[j].id = e.target)
      => FlowCoord(OutNodes[j].position) > FlowCoord(OutNodes[i].position)

\* C7 as stated: along every edge of the input graph the target lies at a
\* strictly greater flow-axis coordinate than the source.
C7_FlowGrowsAlongEveryEdge ==
  LayoutDone => \A e \in Range(layEdges) : GrowsAlong(e)

\* C7 amended: along every edge that lies on no directed cycle of the input
\* graph (so along every edge of an acyclic graph) the target lies at a
\* strictly greater flow-axis coordinate than the source: y for 'TB', x for
\* 'LR'.
C7_FlowGrowsAlongAcyclicEdges ==
  LayoutDone =>
    \A e \in Range(layEdges) : ~OnCycle(layEdges, e) => GrowsAlong(e)

C7_Witness ==
  /\ LayoutDone
  /\ Len(layNodes) = 2 /\ layNodes[1].id = "a" /\ layNodes[2].id = "b"
  /\ Len(layEdges) = 1 /\ layEdges[1].source = "a" /\ layEdges[1].target = "b"
  /\ layDirection = "TB"
  /\ OutNodes[2].position.y > OutNodes[1].position.y

\* C8: the empty graph lays out to the empty graph, without raising, in
\* either direction.
C8_EmptyGraph ==
  (LayoutDone /\ layNodes = <<>> /\ layEdges = <<>>) =>
    /\ ~layResult.raised
    /\ layResult.layoutedNodes = <<>>
    /\ layResult.layoutedEdges = <<>>

C8_Witness ==
  /\ LayoutDone /\ layNodes = <<>> /\ layEdges = <<>> /\ layDirection = "LR"
  /\ layResult = NoLayout

Abs(n) == IF n < 0 THEN -n ELSE n
\* two nodeWidth x nodeHeight boxes with these top-left corners share no area
Disjoint(p, q) == Abs(p.x - q.x) >= 172 \/ Abs(p.y - q.y) >= 50

\* C9: every input node receives a position, and the 172 x 50 boxes of two
\* output nodes with distinct ids do not overlap, with or without edges.
C9_BoxesDoNotOverlap ==
  LayoutDone =>
    /\ ~layResult.raised
    /\ Len(OutNodes) = Len(layNodes)
    /\ layPhase \in {"called", "recalled", "recalledAfterOther"} =>
         \A i \in DOMAIN layNodes : dagreGraph.label[layNodes[i].id].placed
    /\ \A i, j \in DOMAIN OutNodes :
         OutNodes[i].id # OutNodes[j].id
           => Disjoint(OutNodes[i].position, OutNodes[j].position)

C9_Witness ==
  /\ LayoutDone /\ layEdges = <<>> /\ layDirection = "TB"
  /\ Len(layNodes) = 2 /\ layNodes[1].id # layNodes[2].id
  /\ Len(OutNodes) = 2
  /\ OutNodes[1].position # OutNodes[2].position

C12_AnchorsByDirection ==
  LayoutDone =>
    \A i \in DOMAIN OutNodes :
      /\ OutNodes[i].targetPosition =
           (IF layDirection = "TB" THEN "top" ELSE "left")
      /\ OutNodes[i].sourcePosition =
           (IF layDirection = "TB" THEN "bottom" ELSE "right")

C12_Witness ==
  /\ LayoutDone /\ layDirection = "LR"
  /\ Len(OutNodes) = 2 /\ Len(layEdges) = 1
  /\ layEdges[1].source = "b" /\ layEdges[1].target = "a"
  /\ OutNodes[1].targetPosition = "left" /\ OutNodes[1].sourcePosition = "right"

\* dagreGraph is the graph of the call whose result layResult holds
GraphOfResult == layPhase \in {"called", "recalled", "recalledAfterOther"}
\* the rank of an id of that graph, and the ranks below it that hold no node
\* of the input list (only ids that setEdge created)
RankIn(v) == RankOf(v, AcyclicEdges(dagreGraph))
ListedIds == {layNodes[i].id : i \in DOMAIN layNodes}
UnlistedRanksBelow(r) ==
  {q \in 0..(r - 1) : \A v \in ListedIds : RankIn(v) # q}
\* the extent of a box along the flow axis and across it
BoxFlowExtent == IF layDirection = "TB" THEN 50 ELSE 172
BoxCrossExtent == IF layDirection = "TB" THEN 172 ELSE 50
CrossCoord(position) == IF layDirection = "TB" THEN position.x ELSE position.y
\* the returned position is the centre dagre assigned minus half the box
CentredOnAssignedPoint ==
  \A i \in DOMAIN OutNodes :
    /\ OutNodes[i].position.x = dagreGraph.label[OutNodes[i].id].x - 86
    /\ OutNodes[i].position.y = dagreGraph.label[OutNodes[i].id].y - 25
\* boxes of one rank are at least the inter-node spacing apart
SameRankSeparated ==
  \A i, j \in DOMAIN OutNodes :
    (OutNodes[i].id # OutNodes[j].id /\ RankIn(OutNodes[i].id) = RankIn(OutNodes[j].id))
      => Abs(CrossCoord(OutNodes[i].position) - CrossCoord(OutNodes[j].position))
           >= BoxCrossExtent + 50

EntriesOf(seq, v) == {i \in DOMAIN seq : seq[i] = v}
HasDuplicateId == \E i, j \in DOMAIN layNodes : i # j /\ layNodes[i].id = layNodes[j].id

\* C23: when an id occurs more than once in the node list, the layout graph
\* holds one node for it, and the output has one entry for each input entry,
\* those of one id with the same position and the same anchors.
C23_DuplicateIdsCollapse ==
  (LayoutDone /\ GraphOfResult) =>
    /\ \A v \in ListedIds : Cardinality(EntriesOf(dagreGraph.nodes, v)) = 1
    /\ Len(OutNodes) = Len(layNodes)
    /\ \A i, j \in DOMAIN OutNodes :
         OutNodes[i].id = OutNodes[j].id =>
           /\ OutNodes[i].position = OutNodes[j].position
           /\ OutNodes[i].targetPosition = OutNodes[j].targetPosition
           /\ OutNodes[i].sourcePosition = OutNodes[j].sourcePosition

C23_Witness ==
  /\ LayoutDone /\ GraphOfResult /\ HasDuplicateId
  /\ Len(layNodes) = 3 /\ layNodes[1].id = layNodes[3].id /\ layNodes[2].id # layNodes[1].id
  /\ Len(dagreGraph.nodes) = 2
  /\ Len(OutNodes) = 3 /\ OutNodes[1].position = OutNodes[3].position
  /\ OutNodes[2].position # OutNodes[1].position

\* an edge of the input names an id that no node of the input list has
DanglingEdge(e) == e.source \notin ListedIds \/ e.target \notin ListedIds

\* C28: the output node list has one entry for each input entry, in the
\* input's order, with the input's id and data and nothing but the anchors
\* and the position besides; no entry stands for an id that only an edge
\* names; the returned edge list is the input edge list, dangling edges
\* included.
C28_OnlyPositionAndAnchorsChange ==
  LayoutDone =>
    /\ ~layResult.raised
    /\ Len(OutNodes) = Len(layNodes)
    /\ \A i \in DOMAIN OutNodes :
         /\ OutNodes[i].id = layNodes[i].id
         /\ OutNodes[i].data = layNodes[i].data
         /\ DOMAIN OutNodes[i] = DOMAIN layNodes[i] \cup {"targetPosition", "sourcePosition"}
    /\ {OutNodes[i].id : i \in DOMAIN OutNodes} = ListedIds
    /\ layResult.layoutedEdges = layEdges

C28_Witness ==
  /\ LayoutDone /\ GraphOfResult
  /\ Len(layNodes) = 2 /\ Len(layEdges) = 2
  /\ DanglingEdge(layEdges[1]) /\ ~DanglingEdge(layEdges[2])
  /\ Len(dagreGraph.nodes) = 3
  /\ Len(OutNodes) = 2 /\ layResult.layoutedEdges[1] = layEdges[1]

\* ---- claims about the Graph Synthesizer (checked under SpecSynth)
\* The cases C4 names, read off the model's outcome itself.
ModelCallThrows == synOutcome.threw
ParseFails == ~synOutcome.threw /\ ~synOutcome.responseText.wellFormed
ParsedValue == synOutcome.responseText.denotes
ParsesToNonObject ==
  ~synOutcome.threw /\ synOutcome.responseText.wellFormed /\ ParsedValue.kind # "object"
LacksNodesOrEdges ==
  /\ ~synOutcome.threw /\ synOutcome.responseText.wellFormed
  /\ ParsedValue.kind = "object"
  /\ (ParsedValue.nodes.tag = "absent" \/ ParsedValue.edges.tag = "absent")

\* C4: the synthesizer returns null and does not raise whenever the model
\* call throws, the text does not parse, the parsed value is no object, or
\* the object lacks `nodes` or lacks `edges`; a response with nodes and no
\* edges is never accepted with an empty edge list.
C4_NullOnBadResponse ==
  synPc = "settled" =>
    /\ ~synResult.raised
    /\ (ModelCallThrows \/ ParseFails \/ ParsesToNonObject \/ LacksNodesOrEdges)
         => synResult.isNull
    /\ ~synResult.isNull =>
         /\ ParsedValue.nodes.tag # "absent"
         /\ ParsedValue.edges.tag # "absent"
         /\ synResult.value = ParsedValue

C4_Witness ==
  /\ synPc = "settled"
  /\ ~synOutcome.threw /\ synOutcome.responseText.wellFormed
  /\ ParsedValue.kind = "object"
  /\ ParsedValue.nodes = Prop("array", <<NodeA, NodeB>>)
  /\ ParsedValue.edges.tag = "absent"
  /\ synResult.isNull /\ ~synResult.raised

\* C15: every value generateMindMapWithGemini returns as a graph (not null)
\* has nodes and edges present and both arrays; a response whose nodes or
\* edges is present but no array is not accepted.
C15_AcceptedGraphHasSequences ==
  (synPc = "settled" /\ ~synResult.raised /\ ~synResult.isNull) =>
    /\ synResult.value.nodes.tag = "array"
    /\ synResult.value.edges.tag = "array"

\* ---- claims about the Content Extractor (checked under SpecExtract)
AllSupported == \A i \in 1..Len(exFiles) : IsSupported(exFiles[i])

\* what reading `file` yields when nothing fails
OwnText(file) == IF file.type = PdfType THEN PdfPagesText(file.pages) ELSE file.text

\* t is the first `budget` characters of full
IsFirstChars(t, full, budget) ==
  /\ Len(t) = Min(budget, Len(full))
  /\ \A j \in 1..Len(t) : t[j] = full[j]

\* C1: for a batch of supported files only, extraction yields exactly one
\* entry per file, in input order, each carrying its file's name, each text
\* at most the budget long and equal to the first `budget` characters of the
\* text extracted from that file.
C1_OneEntryPerSupportedFile ==
  AllSupported =>
    /\ Len(extractedContents) = exIdx - 1
    /\ exReturned => Len(extractedContents) = Len(exFiles)
    /\ \A i \in 1..Len(extractedContents) :
         /\ extractedContents[i].name = exFiles[i].name
         /\ Len(extractedContents[i].text) <= exLimit
         /\ IsFirstChars(extractedContents[i].text, ExtractedText(exFiles[i]), exLimit)

C1_Witness ==
  /\ exReturned
  /\ AllSupported
  /\ Len(exFiles) = 3
  /\ exFiles[1].name # exFiles[2].name
  /\ exLimit > 0
  /\ \E i \in 1..3 : Len(ExtractedText(exFiles[i])) > exLimit
  /\ \E i \in 1..3 : Len(extractedContents[i].text) = exLimit

\* C2: in a mixed batch every unsupported file contributes no entry at all,
\* and the output is the entries of the supported files in their input
\* order, wherever the unsupported files sit.
C2_UnsupportedContributeNothing ==
  LET done == SubSeq(exFiles, 1, exIdx - 1)
      sup == SelectSeq(done, IsSupported)
  IN /\ Len(extractedContents) = Len(sup)
     /\ \A k \in 1..Len(sup) :
          /\ extractedContents[k].name = sup[k].name
          /\ IsFirstChars(extractedContents[k].text, ExtractedText(sup[k]), exLimit)

C2_Witness ==
  /\ exReturned
  /\ Len(exFiles) = 3
  /\ IsSupported(exFiles[1]) /\ ~IsSupported(exFiles[2]) /\ IsSupported(exFiles[3])
  /\ exFiles[1].name # exFiles[3].name
  /\ Len(extractedContents) = 2
  /\ extractedContents[2].text # <<>>

\* C3: whichever supported documents fail, the loop runs to its return; each
\* failing document contributes an entry with its name and empty text, each
\* other supported document its own truncated text, in input order.
C3_FailuresIsolated ==
  /\ exIdx <= Len(exFiles) + 1
  /\ exReturned => exIdx = Len(exFiles) + 1
  /\ LET done == SubSeq(exFiles, 1, exIdx - 1)
         sup == SelectSeq(done, IsSupported)
     IN /\ Len(extractedContents) = Len(sup)
        /\ \A k \in 1..Len(sup) :
             /\ extractedContents[k].name = sup[k].name
             /\ ~sup[k].readable => extractedContents[k].text = <<>>
             /\ sup[k].readable =>
                  IsFirstChars(extractedContents[k].text, OwnText(sup[k]), exLimit)

C3_Witness ==
  /\ exReturned
  /\ Len(exFiles) = 3
  /\ AllSupported
  /\ ~exFiles[1].readable /\ exFiles[2].readable /\ ~exFiles[3].readable
  /\ Len(extractedContents) = 3
  /\ extractedContents[1].text = <<>>
  /\ extractedContents[2].text # <<>>
  /\ extractedContents[3].text = <<>>

====
